---------------------------- MODULE Spec2Model ----------------------------
(***************************************************************************)
(* Flow engine of the scripted conversational agent                        *)
(* (src/core/script_flow_engine.py, class ScriptFlowEngine).               *)
(*                                                                         *)
(* A document is a sequence of sections produced by the structural parser. *)
(* Strings the engine inspects (section names, utterances, keywords) are   *)
(* sequences of one-character strings, so that lower(), strip() and the    *)
(* substring tests of the code are computed and not looked up.  In the     *)
(* state, a section name or an utterance is held by its literal text and   *)
(* NameText / UtteranceText give its characters.                           *)
(***************************************************************************)
EXTENDS Integers, Sequences, FiniteSets, TLC

VARIABLES
    sections,            \* self.sections: the parsed document's sections
    flow_map,            \* self.flow_map: name -> entry (later section wins)
    flow_order,          \* iteration order of self.flow_map (first insertion)
    current_section,     \* self.current_section
    completed_sections,  \* self.completed_sections
    collected_data,      \* self.collected_data
    conversation_phase,  \* self.conversation_phase
    decision,            \* the value returned by the last call
    lastOp,              \* the last call: "init", "start", "step", "reset"
    left,                \* sections a step of this session advanced away from
    nsteps,              \* step calls since start (counted in SpecAffirm only)
    other,               \* the fields of a second engine of the same document
    active,              \* which of the two engines the fields above belong to
    utterance,           \* the fragments of the text given to the intent detector
    signal,              \* the value returned by the detector's last detect
    script,              \* the lines of the script text given to the parser
    document             \* the value returned by the parser's to_dict

vars == << sections, flow_map, flow_order, current_section, completed_sections,
           collected_data, conversation_phase, decision, lastOp, left,
           nsteps, other, active, utterance, signal, script, document >>

\* the variables of the intent detector's caller
detector_vars == << utterance, signal >>

\* the variables of the parser's caller
parser_vars == << script, document >>

-----------------------------------------------------------------------------
(* Bounds of the model.                                                    *)

MaxSections == 3

MaxVars == 1

\* sections of a document that two engines are built from
MaxSharedSections == 2

\* fragments of an utterance given to the intent detector
MaxFragments == 2

\* lines of a script given to the parser
MaxLines == 3

-----------------------------------------------------------------------------
(* Strings.                                                                *)

UpperCase == << "A","B","C","D","E","F","G","H","I","J","K","L","M",
                "N","O","P","Q","R","S","T","U","V","W","X","Y","Z" >>

LowerCase == << "a","b","c","d","e","f","g","h","i","j","k","l","m",
                "n","o","p","q","r","s","t","u","v","w","x","y","z" >>

DigitChars == { "0","1","2","3","4","5","6","7","8","9" }

LetterChars == { UpperCase[i] : i \in 1..26 } \cup { LowerCase[i] : i \in 1..26 }

\* \w of Python's re for the characters the model uses
WordChars == LetterChars \cup DigitChars \cup { "_" }

\* str.lower() on one character
LowerChar(c) ==
    IF \E i \in 1..26 : UpperCase[i] = c
    THEN LowerCase[CHOOSE i \in 1..26 : UpperCase[i] = c]
    ELSE c

\* str.lower()
Lower(s) == [ i \in 1..Len(s) |-> LowerChar(s[i]) ]

\* Python's  k in s  for strings
Contains(s, k) ==
    \E i \in 0..(Len(s) - Len(k)) : \A j \in 1..Len(k) : s[i + j] = k[j]

\* any(word in s for word in words)
ContainsAny(s, words) == \E w \in 1..Len(words) : Contains(s, words[w])

\* str.strip()
Strip(s) ==
    LET keep == { i \in 1..Len(s) : s[i] # " " }
    IN  IF keep = {} THEN << >>
        ELSE LET lo == CHOOSE i \in keep : \A j \in keep : i <= j
                 hi == CHOOSE i \in keep : \A j \in keep : i >= j
             IN  SubSeq(s, lo, hi)

\* str.replace(' ', '')
RECURSIVE RemoveSpaces(_)
RemoveSpaces(s) ==
    IF s = << >> THEN << >>
    ELSE IF Head(s) = " " THEN RemoveSpaces(Tail(s))
         ELSE << Head(s) >> \o RemoveSpaces(Tail(s))

-----------------------------------------------------------------------------
(* Keyword tables of the engine.                                           *)

\* _classify_section: the stems tested for each type, in the order tested
stems_OPENING ==
    << <<"s","t","a","r","t">>,
       <<"g","r","e","e","t","i","n","g">>,
       <<"o","p","e","n","i","n","g">> >>

stems_INTRODUCTION ==
    << <<"i","n","t","r","o","d","u","c","t","i","o","n">>,
       <<"i","n","t","r","o">> >>

stems_DATA_COLLECTION ==
    << <<"p","e","r","s","o","n","a","l"," ","d","e","t","a","i","l","s">>,
       <<"c","o","n","t","a","c","t">>,
       <<"n","a","m","e">>,
       <<"t","i","t","l","e">> >>

stems_PROPERTY_INFO ==
    << <<"p","r","o","p","e","r","t","y">>,
       <<"a","d","d","r","e","s","s">> >>

stems_BOOKING ==
    << <<"b","o","o","k","i","n","g">>,
       <<"a","p","p","o","i","n","t","m","e","n","t">>,
       <<"c","o","n","f","i","r","m">> >>

stems_OBJECTION_HANDLING ==
    << <<"o","b","j","e","c","t","i","o","n">>,
       <<"i","f"," ","u","s","e","r">>,
       <<"h","a","n","d","l","e">> >>

stems_CLOSING ==
    << <<"e","n","d">>,
       <<"g","o","o","d","b","y","e">>,
       <<"c","l","o","s","i","n","g">> >>

\* _check_for_objections: the objection categories, in dictionary order
kw_not_good_time ==
    << <<"n","o","t"," ","a"," ","g","o","o","d"," ","t","i","m","e">>,
       <<"b","u","s","y">>,
       <<"c","a","l","l"," ","b","a","c","k">>,
       <<"l","a","t","e","r">>,
       <<"n","o","t"," ","n","o","w">> >>

kw_not_interested ==
    << <<"n","o","t"," ","i","n","t","e","r","e","s","t","e","d">>,
       <<"d","o","n","'","t"," ","w","a","n","t">>,
       <<"n","o"," ","t","h","a","n","k","s">>,
       <<"n","o","t"," ","f","o","r"," ","m","e">> >>

kw_too_long ==
    << <<"h","o","w"," ","l","o","n","g">>,
       <<"t","o","o"," ","l","o","n","g">>,
       <<"q","u","i","c","k">>,
       <<"t","i","m","e">> >>

kw_bad_reviews ==
    << <<"r","e","v","i","e","w">>,
       <<"s","c","a","m">>,
       <<"t","r","u","s","t">>,
       <<"l","e","g","i","t","i","m","a","t","e">> >>

kw_thought_instant ==
    << <<"i","n","s","t","a","n","t">>,
       <<"i","m","m","e","d","i","a","t","e">>,
       <<"n","o","w">>,
       <<"s","t","r","a","i","g","h","t"," ","a","w","a","y">> >>

\* _handle_opening: the affirmation tokens
opening_words ==
    << <<"y","e","s">>,
       <<"y","e","a","h">>,
       <<"s","p","e","a","k","i","n","g">>,
       <<"t","h","i","s"," ","i","s">>,
       <<"y","e","p">>,
       <<"y","e","a">>,
       <<"s","u","r","e">>,
       <<"o","k">>,
       <<"o","k","a","y">> >>

\* _handle_introduction: positive_responses
positive_responses ==
    << <<"y","e","s">>,
       <<"y","e","a","h">>,
       <<"o","k">>,
       <<"o","k","a","y">>,
       <<"s","u","r","e">>,
       <<"g","o"," ","a","h","e","a","d">>,
       <<"r","i","g","h","t">>,
       <<"c","o","r","r","e","c","t">>,
       <<"t","h","a","t","'","s"," ","r","i","g","h","t">>,
       <<"y","e","p">>,
       <<"y","e","a">>,
       <<"f","i","n","e">>,
       <<"g","o","o","d">>,
       <<"a","b","s","o","l","u","t","e","l","y">>,
       <<"d","e","f","i","n","i","t","e","l","y">> >>

\* _handle_booking: the affirmation tokens
booking_words ==
    << <<"y","e","s">>,
       <<"o","k">>,
       <<"o","k","a","y">>,
       <<"s","u","r","e">>,
       <<"f","i","n","e">>,
       <<"g","o","o","d">>,
       <<"y","e","a","h">> >>

-----------------------------------------------------------------------------
(* Inputs: the header texts a document may use and the user's utterances.  *)

NameText ==
    ("OPENING" :> <<"O","P","E","N","I","N","G">>) @@
    ("CALL START" :> <<"C","A","L","L"," ","S","T","A","R","T">>) @@
    ("INTRODUCTION" :> <<"I","N","T","R","O","D","U","C","T","I","O","N">>) @@
    ("INTRO" :> <<"I","N","T","R","O">>) @@
    ("PERSONAL DETAILS" :> <<"P","E","R","S","O","N","A","L"," ","D","E","T","A","I","L","S">>) @@
    ("PROPERTY INFO" :> <<"P","R","O","P","E","R","T","Y"," ","I","N","F","O">>) @@
    ("BOOKING" :> <<"B","O","O","K","I","N","G">>) @@
    ("OBJECTION BUSY" :> <<"O","B","J","E","C","T","I","O","N"," ","B","U","S","Y">>) @@
    ("IF USER NOT INTERESTED" :> <<"I","F"," ","U","S","E","R"," ","N","O","T"," ","I","N","T","E","R","E","S","T","E","D">>) @@
    ("CLOSING" :> <<"C","L","O","S","I","N","G">>) @@
    ("PRICING" :> <<"P","R","I","C","I","N","G">>)

\* a section of a hand-built document may lack the key 'name'
NoName == "<absent>"

\* f'SECTION_{i}' for the index i of the code, which counts from 0
DefaultNames ==
    << "SECTION_0", "SECTION_1", "SECTION_2", "SECTION_3",
       "SECTION_4", "SECTION_5", "SECTION_6", "SECTION_7" >>

DecimalDigits == << "0", "1", "2", "3", "4", "5", "6", "7", "8", "9" >>

DefaultNameText ==
    [ n \in { DefaultNames[i] : i \in 1..Len(DefaultNames) } |->
        LET i == CHOOSE k \in 1..Len(DefaultNames) : DefaultNames[k] = n
        IN  << "S","E","C","T","I","O","N","_" >> \o << DecimalDigits[i] >> ]

\* the characters of every name a flow map may hold
TextOf == NameText @@ DefaultNameText

Names == DOMAIN NameText

UtteranceText ==
    ("yes" :> <<"y","e","s">>) @@
    ("no" :> <<"n","o">>) @@
    ("I am busy" :> <<"I"," ","a","m"," ","b","u","s","y">>) @@
    ("not interested" :> <<"n","o","t"," ","i","n","t","e","r","e","s","t","e","d">>) @@
    ("a@b.co, 07123456789" :> <<"a","@","b",".","c","o",","," ","0","7","1","2","3","4","5","6","7","8","9">>)

Utterances == DOMAIN UtteranceText
\* the dialogue of the i-th section of a document: one distinct text per position
DialogueText == << "D1", "D2", "D3", "D4", "D5", "D6", "D7", "D8" >>

\* placeholder names a script may declare ({{email}}, {{mobile}})
Fields == { "email", "mobile" }

\* list(set(matches) | variables): the declared variables in some order
RequiredFieldLists ==
    { s \in UNION { [1..k -> Fields] : k \in 0..MaxVars } :
        \A i, j \in 1..Len(s) : i # j => s[i] # s[j] }

\* Python's None for a section name, an utterance, an objection type
NoSection == "<none>"

NoInput == "<none>"

-----------------------------------------------------------------------------
(* Construction: section classification and the flow map.                  *)

classify_section(name) ==
    LET name_lower == Lower(TextOf[name])
    IN  IF ContainsAny(name_lower, stems_OPENING) THEN "OPENING"
        ELSE IF ContainsAny(name_lower, stems_INTRODUCTION) THEN "INTRODUCTION"
        ELSE IF ContainsAny(name_lower, stems_DATA_COLLECTION) THEN "DATA_COLLECTION"
        ELSE IF ContainsAny(name_lower, stems_PROPERTY_INFO) THEN "PROPERTY_INFO"
        ELSE IF ContainsAny(name_lower, stems_BOOKING) THEN "BOOKING"
        ELSE IF ContainsAny(name_lower, stems_OBJECTION_HANDLING) THEN "OBJECTION_HANDLING"
        ELSE IF ContainsAny(name_lower, stems_CLOSING) THEN "CLOSING"
        ELSE "CONVERSATION"

\* classify_section of every header text, computed once
TypeOf == [ n \in DOMAIN TextOf |-> classify_section(n) ]

\* section.get('name', f'SECTION_{i}')
name_or_default(secs, i) ==
    IF secs[i].name = NoName THEN DefaultNames[i] ELSE secs[i].name

\* self.sections[current_index + 1].get('name'), or None
determine_next_section(secs, i) ==
    IF i + 1 <= Len(secs) /\ secs[i + 1].name # NoName
    THEN secs[i + 1].name ELSE NoSection

\* _build_flow_map keeping under a name the first section that bears it
build_flow_map_first_wins(secs, fields) ==
    [ n \in { name_or_default(secs, i) : i \in 1..Len(secs) } |->
        LET i == CHOOSE k \in 1..Len(secs) :
                    /\ name_or_default(secs, k) = n
                    /\ \A m \in 1..Len(secs) : name_or_default(secs, m) = n => k <= m
        IN  [ index           |-> i,
              name            |-> n,
              type            |-> TypeOf[n],
              dialogue        |-> secs[i].dialogue,
              required_fields |-> fields,
              next_section    |-> determine_next_section(secs, i) ] ]

\* flow[section_name] = {...} for every section in order: the entry of a name
\* is the one written last.  Indices are 1-based here, 0-based in the code.
build_flow_map(secs, fields) ==
    [ n \in { name_or_default(secs, i) : i \in 1..Len(secs) } |->
        LET i == CHOOSE k \in 1..Len(secs) :
                    /\ name_or_default(secs, k) = n
                    /\ \A m \in 1..Len(secs) : name_or_default(secs, m) = n => m <= k
        IN  [ index           |-> i,
              name            |-> n,
              type            |-> TypeOf[n],
              dialogue        |-> secs[i].dialogue,
              required_fields |-> fields,
              next_section    |-> determine_next_section(secs, i) ] ]

\* the keys of the flow map in insertion order: a key keeps the position of
\* its first insertion
RECURSIVE FlowOrderFrom(_, _, _)
FlowOrderFrom(secs, i, seen) ==
    IF i > Len(secs) THEN << >>
    ELSE IF name_or_default(secs, i) \in seen THEN FlowOrderFrom(secs, i + 1, seen)
         ELSE << name_or_default(secs, i) >>
                \o FlowOrderFrom(secs, i + 1, seen \cup { name_or_default(secs, i) })

FlowOrder(secs, seen) == FlowOrderFrom(secs, 1, seen)

-----------------------------------------------------------------------------
(* Decisions and handler results.                                          *)

Decision(section, type, agent_line, required_fields, phase, objection_type) ==
    [ section         |-> section,
      type            |-> type,
      agent_line      |-> agent_line,
      required_fields |-> required_fields,
      phase           |-> phase,
      objection_type  |-> objection_type ]

\* no value returned yet (after construction) or None returned (reset)
NoDecision == Decision(NoSection, "<none>", "<none>", << >>, "<none>", "<none>")

\* the state a handler leaves and the decision it returns
Result(cur, comp, data, phase, dec) ==
    [ cur |-> cur, comp |-> comp, data |-> data, phase |-> phase, dec |-> dec ]

\* a handler that returns dec without assigning to any field
Unchanged(dec) ==
    Result(current_section, completed_sections, collected_data,
           conversation_phase, dec)

MinOf(S) == CHOOSE i \in S : \A j \in S : i <= j

MaxOf(S) == CHOOSE i \in S : \A j \in S : i >= j

-----------------------------------------------------------------------------
(* start_conversation                                                      *)

\* first_section.get('name', 'START')
first_section_name ==
    IF sections[1].name = NoName THEN "START" ELSE sections[1].name

\* start_conversation without the search for an OPENING section
start_conversation_first_only ==
    IF sections # << >>
    THEN Result(first_section_name, completed_sections, collected_data,
                conversation_phase,
                Decision(first_section_name, "OPENING", sections[1].dialogue,
                         << >>, "OPENING", "<none>"))
    ELSE Unchanged(Decision("DEFAULT", "OPENING",
                            "Hello! Thank you for your interest.",
                            << >>, "OPENING", "<none>"))

start_conversation ==
    LET openings == { i \in 1..Len(flow_order) :
                        flow_map[flow_order[i]].type = "OPENING" }
    IN  IF openings # {}
        THEN LET section_name == flow_order[MinOf(openings)]
                 section_data == flow_map[section_name]
             IN  Result(section_name, completed_sections, collected_data, "OPENING",
                        Decision(section_name, "OPENING", section_data.dialogue,
                                 section_data.required_fields, "OPENING", "<none>"))
        ELSE IF sections # << >>
        THEN LET first_section == sections[1]
             IN  Result(first_section_name, completed_sections, collected_data,
                        conversation_phase,
                        Decision(first_section_name, "OPENING", first_section.dialogue,
                                 << >>, "OPENING", "<none>"))
        ELSE Unchanged(Decision("DEFAULT", "OPENING",
                                "Hello! Thank you for your interest.",
                                << >>, "OPENING", "<none>"))

-----------------------------------------------------------------------------
(* Objection interception                                                  *)

objections ==
    << [ obj_type |-> "not_good_time",   keywords |-> kw_not_good_time ],
       [ obj_type |-> "not_interested",  keywords |-> kw_not_interested ],
       [ obj_type |-> "too_long",        keywords |-> kw_too_long ],
       [ obj_type |-> "bad_reviews",     keywords |-> kw_bad_reviews ],
       [ obj_type |-> "thought_instant", keywords |-> kw_thought_instant ] >>

\* the categories a keyword of which occurs in the lower-cased utterance
UtteranceCategories ==
    [ u \in Utterances |->
        { c \in 1..Len(objections) :
            ContainsAny(Lower(UtteranceText[u]), objections[c].keywords) } ]

\* the categories a keyword of which occurs in the lower-cased section name
NameCategories ==
    [ n \in DOMAIN TextOf |->
        { c \in 1..Len(objections) :
            ContainsAny(Lower(TextOf[n]), objections[c].keywords) } ]

\* returns the decision, or NoDecision for None
check_for_objections(user_input) ==
    LET hits == { i \in 1..Len(flow_order) :
                    /\ flow_map[flow_order[i]].type = "OBJECTION_HANDLING"
                    /\ UtteranceCategories[user_input]
                         \cap NameCategories[flow_order[i]] # {} }
    IN  IF hits = {} THEN NoDecision
        ELSE LET section_name == flow_order[MinOf(hits)]
                 c == MinOf(UtteranceCategories[user_input]
                              \cap NameCategories[section_name])
             IN  Decision(section_name, "OBJECTION_HANDLING",
                          flow_map[section_name].dialogue, << >>, "OBJECTION",
                          objections[c].obj_type)

-----------------------------------------------------------------------------
(* Section search                                                          *)

find_next_sequential_section ==
    IF current_section = NoSection THEN NoSection
    ELSE IF current_section \notin DOMAIN flow_map THEN NoSection
    ELSE LET current_index == flow_map[current_section].index
             found == { i \in (current_index + 1)..Len(sections) :
                          /\ name_or_default(sections, i) \notin completed_sections
                          /\ name_or_default(sections, i) \in DOMAIN flow_map
                          /\ flow_map[name_or_default(sections, i)].type
                                # "OBJECTION_HANDLING" }
         IN  IF found = {} THEN NoSection
             ELSE name_or_default(sections, MinOf(found))

get_next_section_by_type(section_type) ==
    LET found == { i \in 1..Len(flow_order) :
                     /\ flow_map[flow_order[i]].type = section_type
                     /\ flow_order[i] \notin completed_sections }
    IN  IF found = {} THEN NoSection ELSE flow_order[MinOf(found)]

-----------------------------------------------------------------------------
(* Field extraction                                                        *)

LocalChars == LetterChars \cup DigitChars \cup { ".", "_", "%", "+", "-" }

DomainChars == LetterChars \cup DigitChars \cup { ".", "-" }

TldChars == LetterChars \cup { "|" }

\* \b of Python's re between positions i-1 and i of s
Boundary(s, i) ==
    ((i - 1) \in 1..Len(s) /\ s[i - 1] \in WordChars)
        # (i \in 1..Len(s) /\ s[i] \in WordChars)

AllIn(s, lo, hi, chars) == \A k \in lo..hi : s[k] \in chars

\* re.findall(email_pattern, s)[0], or the empty string when nothing matches:
\* the leftmost match, its domain part and then its last part taken greedily
FirstEmail(s) ==
    LET n == Len(s)
        matches == { m \in (1..n) \X (1..n) \X (1..n) \X (1..n) :
                       /\ m[1] < m[2] /\ m[2] + 1 < m[3] /\ m[3] + 2 <= m[4]
                       /\ AllIn(s, m[1], m[2] - 1, LocalChars)
                       /\ s[m[2]] = "@"
                       /\ AllIn(s, m[2] + 1, m[3] - 1, DomainChars)
                       /\ s[m[3]] = "."
                       /\ AllIn(s, m[3] + 1, m[4], TldChars)
                       /\ Boundary(s, m[1])
                       /\ Boundary(s, m[4] + 1) }
    IN  IF matches = {} THEN << >>
        ELSE LET i  == MinOf({ m[1] : m \in matches })
                 d  == MaxOf({ m[3] : m \in { x \in matches : x[1] = i } })
                 e  == MaxOf({ m[4] : m \in { x \in matches : x[1] = i /\ x[3] = d } })
             IN  SubSeq(s, i, e)

\* re.findall(phone_pattern, s.replace(' ', ''))[0], or the empty string
FirstPhone(s) ==
    LET t == RemoveSpaces(s)
        n == Len(t)
        matches == { m \in (1..n) \X (1..n) :
                       /\ (m[2] - m[1] + 1) \in { 10, 11 }
                       /\ AllIn(t, m[1], m[2], DigitChars)
                       /\ Boundary(t, m[1])
                       /\ Boundary(t, m[2] + 1) }
    IN  IF matches = {} THEN << >>
        ELSE LET i == MinOf({ m[1] : m \in matches })
                 e == MaxOf({ m[2] : m \in { x \in matches : x[1] = i } })
             IN  SubSeq(t, i, e)

\* what the regular expressions find in every utterance, computed once
Emails == [ u \in Utterances |-> FirstEmail(UtteranceText[u]) ]

Phones == [ u \in Utterances |-> FirstPhone(UtteranceText[u]) ]

\* an empty dict
EmptyDict == [ f \in {} |-> << >> ]

SeqRange(s) == { s[i] : i \in 1..Len(s) }

extract_data_from_input(user_input, expected_fields) ==
    LET fs == SeqRange(expected_fields)
        with_email ==
            IF "email" \in fs /\ Emails[user_input] # << >>
            THEN ("email" :> Emails[user_input]) ELSE EmptyDict
        extracted ==
            IF ("mobile" \in fs \/ "phone" \in fs) /\ Phones[user_input] # << >>
            THEN ("mobile" :> Phones[user_input]) @@ with_email ELSE with_email
    IN  IF expected_fields # << >> /\ DOMAIN extracted = {}
        THEN (expected_fields[1] :> UtteranceText[user_input])
        ELSE extracted

-----------------------------------------------------------------------------
(* What the handlers test of an utterance, computed once per utterance.    *)

\* any(word in user_lower for word in [...]) of _handle_opening
OpeningAffirms == [ u \in Utterances |-> ContainsAny(Lower(UtteranceText[u]), opening_words) ]

\* any(word in user_lower for word in positive_responses)
IntroductionAffirms == [ u \in Utterances |-> ContainsAny(Lower(UtteranceText[u]), positive_responses) ]

\* any(word in user_lower for word in [...]) of _handle_booking
BookingAffirms == [ u \in Utterances |-> ContainsAny(Lower(UtteranceText[u]), booking_words) ]

\* user_input.strip() and len(user_input.strip()) > 2
NonTrivial == [ u \in Utterances |-> Len(Strip(UtteranceText[u])) > 2 ]

-----------------------------------------------------------------------------
(* The step handlers                                                       *)

SectionDecision(name, phase) ==
    Decision(name, flow_map[name].type, flow_map[name].dialogue,
             flow_map[name].required_fields, phase, "<none>")

handle_opening(user_input) ==
    LET next_section == get_next_section_by_type("INTRODUCTION")
    IN  IF OpeningAffirms[user_input] /\ next_section # NoSection
        THEN Result(next_section, completed_sections \cup { "OPENING" },
                    collected_data, "INTRODUCTION",
                    Decision(next_section, "INTRODUCTION",
                             flow_map[next_section].dialogue,
                             flow_map[next_section].required_fields,
                             "INTRODUCTION", "<none>"))
        ELSE Unchanged(Decision(current_section, "OPENING",
                                "Sorry, may I confirm who I'm speaking with?",
                                << "first_name" >>, "OPENING", "<none>"))

\* _handle_introduction marking the section's own name complete as well as
\* 'INTRODUCTION'
handle_introduction_marks_both(user_input) ==
    LET next_section == find_next_sequential_section
    IN  IF IntroductionAffirms[user_input] /\ next_section # NoSection
        THEN Result(next_section,
                    completed_sections \cup { "INTRODUCTION", current_section },
                    collected_data, flow_map[next_section].type,
                    SectionDecision(next_section, flow_map[next_section].type))
        ELSE Unchanged(Decision(current_section, "INTRODUCTION",
                                "I'd be happy to answer any questions you have. What would you like to know?",
                                << >>, "INTRODUCTION", "<none>"))

handle_introduction(user_input) ==
    LET next_section == find_next_sequential_section
    IN  IF IntroductionAffirms[user_input] /\ next_section # NoSection
        THEN Result(next_section, completed_sections \cup { "INTRODUCTION" },
                    collected_data, flow_map[next_section].type,
                    SectionDecision(next_section, flow_map[next_section].type))
        ELSE Unchanged(Decision(current_section, "INTRODUCTION",
                                "I'd be happy to answer any questions you have. What would you like to know?",
                                << >>, "INTRODUCTION", "<none>"))

\* _continue_to_next_section assigning the completed set instead of adding to it
continue_to_next_section_assigns ==
    LET next_section == find_next_sequential_section
    IN  IF next_section # NoSection
        THEN Result(next_section, { current_section },
                    collected_data, conversation_phase,
                    SectionDecision(next_section, flow_map[next_section].type))
        ELSE Unchanged(Decision("END", "CLOSING",
                                "Thank you for your time. Goodbye!",
                                << >>, "CLOSING", "<none>"))

\* _continue_to_next_section naming 'END' as the current section when the
\* script is exhausted
continue_to_next_section_enters_end ==
    LET next_section == find_next_sequential_section
    IN  IF next_section # NoSection
        THEN Result(next_section, completed_sections \cup { current_section },
                    collected_data, conversation_phase,
                    SectionDecision(next_section, flow_map[next_section].type))
        ELSE Result("END", completed_sections, collected_data, conversation_phase,
                    Decision("END", "CLOSING",
                             "Thank you for your time. Goodbye!",
                             << >>, "CLOSING", "<none>"))

continue_to_next_section ==
    LET next_section == find_next_sequential_section
    IN  IF next_section # NoSection
        THEN Result(next_section, completed_sections \cup { current_section },
                    collected_data, conversation_phase,
                    SectionDecision(next_section, flow_map[next_section].type))
        ELSE Unchanged(Decision("END", "CLOSING",
                                "Thank you for your time. Goodbye!",
                                << >>, "CLOSING", "<none>"))

handle_data_collection(user_input) ==
    LET current == flow_map[current_section]
        extracted_data == extract_data_from_input(user_input, current.required_fields)
        data == extracted_data @@ collected_data
        next_section == find_next_sequential_section
    IN  IF NonTrivial[user_input] /\ next_section # NoSection
        THEN Result(next_section, completed_sections \cup { current.name },
                    data, conversation_phase,
                    SectionDecision(next_section, flow_map[next_section].type))
        ELSE [ continue_to_next_section EXCEPT !.data = data ]

handle_property_info(user_input) == handle_data_collection(user_input)

\* _handle_booking storing what the utterance holds, as _handle_data_collection
\* does
handle_booking_collects(user_input) ==
    LET next_section == find_next_sequential_section
        data == extract_data_from_input(user_input,
                                        flow_map[current_section].required_fields)
                    @@ collected_data
    IN  IF BookingAffirms[user_input] /\ next_section # NoSection
        THEN Result(next_section, completed_sections, data,
                    conversation_phase, SectionDecision(next_section, "BOOKING"))
        ELSE [ Unchanged(Decision(current_section, "BOOKING",
                                  "Would you like to proceed with booking the consultation?",
                                  << >>, "BOOKING", "<none>"))
               EXCEPT !.data = data ]

handle_booking(user_input) ==
    LET next_section == find_next_sequential_section
    IN  IF BookingAffirms[user_input] /\ next_section # NoSection
        THEN Result(next_section, completed_sections, collected_data,
                    conversation_phase, SectionDecision(next_section, "BOOKING"))
        ELSE Unchanged(Decision(current_section, "BOOKING",
                                "Would you like to proceed with booking the consultation?",
                                << >>, "BOOKING", "<none>"))

handle_general_conversation(user_input) == continue_to_next_section

fallback_response ==
    Decision("FALLBACK", "CONVERSATION", "I'm sorry, could you repeat that?",
             << >>, conversation_phase, "<none>")

\* get_next_step looking for objections only after the OPENING handler
get_next_step_opening_first(user_input) ==
    IF current_section = NoSection THEN start_conversation
    ELSE IF current_section \notin DOMAIN flow_map THEN Unchanged(fallback_response)
    ELSE IF flow_map[current_section].type = "OPENING" THEN handle_opening(user_input)
    ELSE IF check_for_objections(user_input) # NoDecision
         THEN Unchanged(check_for_objections(user_input))
    ELSE LET type == flow_map[current_section].type
         IN  IF type = "INTRODUCTION" THEN handle_introduction(user_input)
             ELSE IF type = "DATA_COLLECTION" THEN handle_data_collection(user_input)
             ELSE IF type = "PROPERTY_INFO" THEN handle_property_info(user_input)
             ELSE IF type = "BOOKING" THEN handle_booking(user_input)
             ELSE handle_general_conversation(user_input)

\* get_next_step looking for objections before it looks the current section up
get_next_step_objection_first(user_input) ==
    IF current_section = NoSection THEN start_conversation
    ELSE IF check_for_objections(user_input) # NoDecision
         THEN Unchanged(check_for_objections(user_input))
    ELSE IF current_section \notin DOMAIN flow_map THEN Unchanged(fallback_response)
    ELSE LET type == flow_map[current_section].type
         IN  IF type = "OPENING" THEN handle_opening(user_input)
             ELSE IF type = "INTRODUCTION" THEN handle_introduction(user_input)
             ELSE IF type = "DATA_COLLECTION" THEN handle_data_collection(user_input)
             ELSE IF type = "PROPERTY_INFO" THEN handle_property_info(user_input)
             ELSE IF type = "BOOKING" THEN handle_booking(user_input)
             ELSE handle_general_conversation(user_input)

\* get_next_step marking the current section complete when an objection is
\* intercepted
get_next_step_objection_completes(user_input) ==
    IF current_section = NoSection THEN start_conversation
    ELSE IF current_section \notin DOMAIN flow_map THEN Unchanged(fallback_response)
    ELSE IF check_for_objections(user_input) # NoDecision
         THEN Result(current_section, completed_sections \cup { current_section },
                     collected_data, conversation_phase,
                     check_for_objections(user_input))
    ELSE LET type == flow_map[current_section].type
         IN  IF type = "OPENING" THEN handle_opening(user_input)
             ELSE IF type = "INTRODUCTION" THEN handle_introduction(user_input)
             ELSE IF type = "DATA_COLLECTION" THEN handle_data_collection(user_input)
             ELSE IF type = "PROPERTY_INFO" THEN handle_property_info(user_input)
             ELSE IF type = "BOOKING" THEN handle_booking(user_input)
             ELSE handle_general_conversation(user_input)

\* get_next_step looking the current section up before it tests whether one
\* is set
get_next_step_lookup_first(user_input) ==
    IF current_section \notin DOMAIN flow_map THEN Unchanged(fallback_response)
    ELSE IF current_section = NoSection THEN start_conversation
    ELSE IF check_for_objections(user_input) # NoDecision
         THEN Unchanged(check_for_objections(user_input))
    ELSE LET type == flow_map[current_section].type
         IN  IF type = "OPENING" THEN handle_opening(user_input)
             ELSE IF type = "INTRODUCTION" THEN handle_introduction(user_input)
             ELSE IF type = "DATA_COLLECTION" THEN handle_data_collection(user_input)
             ELSE IF type = "PROPERTY_INFO" THEN handle_property_info(user_input)
             ELSE IF type = "BOOKING" THEN handle_booking(user_input)
             ELSE handle_general_conversation(user_input)

get_next_step(user_input) ==
    IF current_section = NoSection THEN start_conversation
    ELSE IF current_section \notin DOMAIN flow_map THEN Unchanged(fallback_response)
    ELSE IF check_for_objections(user_input) # NoDecision
         THEN Unchanged(check_for_objections(user_input))
    ELSE LET type == flow_map[current_section].type
         IN  IF type = "OPENING" THEN handle_opening(user_input)
             ELSE IF type = "INTRODUCTION" THEN handle_introduction(user_input)
             ELSE IF type = "DATA_COLLECTION" THEN handle_data_collection(user_input)
             ELSE IF type = "PROPERTY_INFO" THEN handle_property_info(user_input)
             ELSE IF type = "BOOKING" THEN handle_booking(user_input)
             ELSE handle_general_conversation(user_input)

\* progress_percentage is a float in the code; the model keeps its integer part
get_progress ==
    LET total_sections == Cardinality({ n \in DOMAIN flow_map :
                                          flow_map[n].type # "OBJECTION_HANDLING" })
        completed == Cardinality(completed_sections)
    IN  [ current_section     |-> current_section,
          phase               |-> conversation_phase,
          completed_sections  |-> completed_sections,
          total_sections      |-> total_sections,
          progress_percentage |-> IF total_sections > 0
                                  THEN (completed * 100) \div total_sections
                                  ELSE 0,
          collected_data      |-> collected_data ]

-----------------------------------------------------------------------------
(* The engine as a state machine                                           *)

-----------------------------------------------------------------------------
(* The intent detector (intent_detector.py): a pure function of the        *)
(* utterance.  Scores are kept as exact fractions.                         *)

\* INTENT_PATTERNS, in the order of declaration
INTENT_PATTERNS ==
    << [ intent |-> "POSITIVE",
         keywords |->
            << <<"y","e","s">>,
               <<"y","e","a","h">>,
               <<"y","e","p">>,
               <<"s","u","r","e">>,
               <<"o","k","a","y">>,
               <<"o","k">>,
               <<"d","e","f","i","n","i","t","e","l","y">>,
               <<"a","b","s","o","l","u","t","e","l","y">>,
               <<"c","o","r","r","e","c","t">>,
               <<"r","i","g","h","t">>,
               <<"a","g","r","e","e","d">>,
               <<"s","o","u","n","d","s"," ","g","o","o","d">> >>,
         phrases |->
            << <<"i"," ","a","g","r","e","e">>,
               <<"t","h","a","t"," ","w","o","r","k","s">>,
               <<"g","o"," ","a","h","e","a","d">>,
               <<"l","e","t","s"," ","d","o"," ","i","t">> >> ],
       [ intent |-> "NEGATIVE",
         keywords |->
            << <<"n","o">>,
               <<"n","o","p","e">>,
               <<"n","a","h">>,
               <<"n","e","v","e","r">>,
               <<"n","o","t"," ","i","n","t","e","r","e","s","t","e","d">>,
               <<"d","o","n","t"," ","w","a","n","t">>,
               <<"n","o","t"," ","n","o","w">>,
               <<"n","o","t"," ","r","i","g","h","t"," ","n","o","w">> >>,
         phrases |->
            << <<"n","o"," ","t","h","a","n","k","s">>,
               <<"n","o","t"," ","i","n","t","e","r","e","s","t","e","d">>,
               <<"n","o","t"," ","f","o","r"," ","m","e">> >> ],
       [ intent |-> "QUESTION",
         keywords |->
            << <<"w","h","a","t">>,
               <<"w","h","e","n">>,
               <<"w","h","e","r","e">>,
               <<"w","h","o">>,
               <<"w","h","y">>,
               <<"h","o","w">>,
               <<"c","a","n"," ","y","o","u">>,
               <<"c","o","u","l","d"," ","y","o","u">>,
               <<"w","o","u","l","d"," ","y","o","u">>,
               <<"e","x","p","l","a","i","n">>,
               <<"t","e","l","l"," ","m","e">> >>,
         phrases |->
            << <<"c","a","n"," ","y","o","u"," ","e","x","p","l","a","i","n">>,
               <<"w","h","a","t"," ","d","o","e","s">>,
               <<"h","o","w"," ","d","o","e","s">>,
               <<"t","e","l","l"," ","m","e"," ","m","o","r","e">> >> ],
       [ intent |-> "UNCERTAIN",
         keywords |->
            << <<"m","a","y","b","e">>,
               <<"n","o","t"," ","s","u","r","e">>,
               <<"d","o","n","t"," ","k","n","o","w">>,
               <<"u","n","s","u","r","e">>,
               <<"u","n","c","e","r","t","a","i","n">>,
               <<"t","h","i","n","k","i","n","g">>,
               <<"c","o","n","s","i","d","e","r","i","n","g">>,
               <<"m","i","g","h","t">>,
               <<"c","o","u","l","d">> >>,
         phrases |->
            << <<"n","o","t"," ","c","e","r","t","a","i","n">>,
               <<"l","e","t"," ","m","e"," ","t","h","i","n","k">>,
               <<"n","e","e","d"," ","t","o"," ","t","h","i","n","k">> >> ],
       [ intent |-> "OBJECTION",
         keywords |->
            << <<"b","u","t">>,
               <<"h","o","w","e","v","e","r">>,
               <<"e","x","p","e","n","s","i","v","e">>,
               <<"c","o","s","t","l","y">>,
               <<"w","o","r","r","i","e","d">>,
               <<"c","o","n","c","e","r","n">>,
               <<"p","r","o","b","l","e","m">>,
               <<"i","s","s","u","e">>,
               <<"u","n","c","o","m","f","o","r","t","a","b","l","e">> >>,
         phrases |->
            << <<"t","o","o"," ","e","x","p","e","n","s","i","v","e">>,
               <<"t","o","o"," ","m","u","c","h">>,
               <<"c","a","n","t"," ","a","f","f","o","r","d">>,
               <<"n","o","t"," ","r","e","a","d","y">> >> ],
       [ intent |-> "REQUEST_INFO",
         keywords |->
            << <<"d","e","t","a","i","l","s">>,
               <<"i","n","f","o","r","m","a","t","i","o","n">>,
               <<"m","o","r","e"," ","i","n","f","o">>,
               <<"s","p","e","c","i","f","i","c","s">>,
               <<"p","r","i","c","i","n","g">>,
               <<"c","o","s","t">>,
               <<"r","a","t","e","s">>,
               <<"t","e","r","m","s">> >>,
         phrases |->
            << <<"m","o","r","e"," ","d","e","t","a","i","l","s">>,
               <<"n","e","e","d"," ","i","n","f","o","r","m","a","t","i","o","n">>,
               <<"w","a","n","t"," ","t","o"," ","k","n","o","w">> >> ],
       [ intent |-> "BUSY",
         keywords |->
            << <<"b","u","s","y">>,
               <<"b","a","d"," ","t","i","m","e">>,
               <<"n","o","t"," ","c","o","n","v","e","n","i","e","n","t">>,
               <<"c","a","l","l"," ","b","a","c","k">>,
               <<"l","a","t","e","r">> >>,
         phrases |->
            << <<"b","a","d"," ","t","i","m","e">>,
               <<"n","o","t"," ","g","o","o","d"," ","t","i","m","e">>,
               <<"c","a","l","l"," ","m","e"," ","b","a","c","k">>,
               <<"c","a","l","l"," ","l","a","t","e","r">> >> ],
       [ intent |-> "FRUSTRATED",
         keywords |->
            << <<"f","r","u","s","t","r","a","t","e","d">>,
               <<"a","n","n","o","y","e","d">>,
               <<"u","p","s","e","t">>,
               <<"a","n","g","r","y">>,
               <<"t","h","i","r","d"," ","t","i","m","e">>,
               <<"a","g","a","i","n">>,
               <<"s","t","i","l","l">>,
               <<"a","l","w","a","y","s">> >>,
         phrases |->
            << <<"t","h","i","r","d"," ","t","i","m","e"," ","c","a","l","l","i","n","g">>,
               <<"n","o","b","o","d","y"," ","h","e","l","p","e","d">>,
               <<"s","t","i","l","l"," ","w","a","i","t","i","n","g">> >> ] >>

\* pieces of what a user may say; an utterance is some of them, joined by
\* single spaces
FragmentText ==
    ("No thanks," :> <<"N","o"," ","t","h","a","n","k","s",",">>) @@
    ("not interested" :> <<"n","o","t"," ","i","n","t","e","r","e","s","t","e","d">>) @@
    ("cost" :> <<"c","o","s","t">>) @@
    ("again" :> <<"a","g","a","i","n">>) @@
    ("third time calling again" :> <<"t","h","i","r","d"," ","t","i","m","e"," ","c","a","l","l","i","n","g"," ","a","g","a","i","n">>) @@
    ("still waiting" :> <<"s","t","i","l","l"," ","w","a","i","t","i","n","g">>) @@
    ("why?" :> <<"w","h","y","?">>)

Fragments == DOMAIN FragmentText

\* IntentDetector(fuzzy_threshold=config.FUZZY_THRESHOLD)
fuzzy_threshold == 80

\* str.split(): the words of s, a word being a longest run without a space
RECURSIVE SplitFrom(_, _, _)
SplitFrom(s, i, word) ==
    IF i > Len(s)
    THEN IF word = << >> THEN << >> ELSE << word >>
    ELSE IF s[i] = " "
         THEN (IF word = << >> THEN << >> ELSE << word >>) \o SplitFrom(s, i + 1, << >>)
         ELSE SplitFrom(s, i + 1, Append(word, s[i]))

Split(s) == SplitFrom(s, 1, << >>)

\* the length of the block a[i..] = b[j..] inside a[..ahi], b[..bhi]
RECURSIVE BlockLength(_, _, _, _, _, _)
BlockLength(a, b, i, j, ahi, bhi) ==
    IF i <= ahi /\ j <= bhi /\ a[i] = b[j]
    THEN 1 + BlockLength(a, b, i + 1, j + 1, ahi, bhi)
    ELSE 0

\* difflib.SequenceMatcher.get_matching_blocks, summed: the longest block of
\* a[alo..ahi] and b[blo..bhi] (the one that starts earliest in a and, of
\* those, earliest in b), then the same to its left and to its right
RECURSIVE matching_characters(_, _, _, _, _, _)
matching_characters(a, b, alo, ahi, blo, bhi) ==
    IF alo > ahi \/ blo > bhi THEN 0
    ELSE LET size(i, j) == BlockLength(a, b, i, j, ahi, bhi)
             k == MaxOf({ size(i, j) : i \in alo..ahi, j \in blo..bhi })
         IN  IF k = 0 THEN 0
             ELSE LET i == MinOf({ x \in alo..ahi : \E y \in blo..bhi : size(x, y) = k })
                      j == MinOf({ y \in blo..bhi : size(i, y) = k })
                  IN  k + matching_characters(a, b, alo, i - 1, blo, j - 1)
                        + matching_characters(a, b, i + k, ahi, j + k, bhi)

\* round(n / d) of Python 3: to the nearest integer, a half to the even one
RoundHalfEven(n, d) ==
    LET q == n \div d
        r == n % d
    IN  IF 2 * r > d THEN q + 1
        ELSE IF 2 * r = d THEN q + (q % 2)
        ELSE q

\* fuzzywuzzy.fuzz.ratio(s1, s2) with the matcher of difflib:
\* int(round(100 * 2 * M / T))
fuzz_ratio(s1, s2) ==
    IF s1 = s2 THEN 100
    ELSE IF Len(s1) = 0 \/ Len(s2) = 0 THEN 0
    ELSE RoundHalfEven(200 * matching_characters(s1, s2, 1, Len(s1), 1, Len(s2)),
                       Len(s1) + Len(s2))

\* user_input.lower().strip()
user_lower(text) == Strip(Lower(text))

\* ' '.join(fragments)
RECURSIVE JoinText(_)
JoinText(fragments) ==
    IF fragments = << >> THEN << >>
    ELSE IF Len(fragments) = 1 THEN FragmentText[fragments[1]]
    ELSE FragmentText[Head(fragments)] \o << " " >> \o JoinText(Tail(fragments))

\* the utterances given to the detector: up to MaxFragments fragments
BoundedUtterances == UNION { [1..n -> Fragments] : n \in 0..MaxFragments }

\* the texts _score_all_intents is given
BoundedTexts == { user_lower(JoinText(u)) : u \in BoundedUtterances }

\* the words an utterance of the model can hold
PoolWords ==
    UNION { { Split(user_lower(FragmentText[f]))[i] :
                i \in 1..Len(Split(user_lower(FragmentText[f]))) } : f \in Fragments }

\* similarity >= self.fuzzy_threshold, for each keyword of each intent and
\* each word
FuzzyMatches ==
    [ p \in 1..Len(INTENT_PATTERNS) |->
        [ w \in PoolWords |->
            { k \in 1..Len(INTENT_PATTERNS[p].keywords) :
                fuzz_ratio(INTENT_PATTERNS[p].keywords[k], w) >= fuzzy_threshold } ] ]

\* a score: the fraction num / den
Score(num, den) == [ num |-> num, den |-> den ]

\* x < y for scores
Less(x, y) == x.num * y.den < y.num * x.den

\* the entry of one intent in _score_all_intents: whether it matched, and
\* min(score / max_possible, 1.0)
intent_score(p, user_input) ==
    LET patterns == INTENT_PATTERNS[p]
        words == Split(user_input)
        keyword_hits == { k \in 1..Len(patterns.keywords) :
                            Contains(user_input, patterns.keywords[k]) }
        phrase_hits == { k \in 1..Len(patterns.phrases) :
                            Contains(user_input, patterns.phrases[k]) }
        fuzzy_hits == { k \in 1..Len(patterns.keywords) :
                            \E i \in 1..Len(words) : k \in FuzzyMatches[p][words[i]] }
        matches == Cardinality(keyword_hits) + Cardinality(phrase_hits)
                     + Cardinality(fuzzy_hits)
        \* twice the score: 1.0 per keyword, 1.5 per phrase, 0.5 per fuzzy hit
        score2 == 2 * Cardinality(keyword_hits) + 3 * Cardinality(phrase_hits)
                    + Cardinality(fuzzy_hits)
        max_possible == Len(patterns.keywords) + Len(patterns.phrases)
    IN  [ matched |-> matches > 0,
          score |-> IF score2 >= 2 * max_possible THEN Score(1, 1)
                    ELSE Score(score2, 2 * max_possible) ]

\* the entries of every intent, for each text
ScoreTable ==
    [ t \in BoundedTexts |->
        [ p \in 1..Len(INTENT_PATTERNS) |-> intent_score(p, t) ] ]

\* _score_all_intents: the dict scores, as its keys in insertion order and its
\* values
score_all_intents(user_input) ==
    LET entry == ScoreTable[user_input]
        matched == SelectSeq([ p \in 1..Len(INTENT_PATTERNS) |-> p ],
                             LAMBDA p : entry[p].matched)
    IN  [ keys |-> [ i \in 1..Len(matched) |-> INTENT_PATTERNS[matched[i]].intent ],
          value |-> [ l \in { INTENT_PATTERNS[matched[i]].intent : i \in 1..Len(matched) } |->
                        entry[CHOOSE p \in 1..Len(INTENT_PATTERNS) :
                                INTENT_PATTERNS[p].intent = l].score ] ]

\* intent_scores.get(intent, 0)
score_get(intent_scores, intent) ==
    IF intent \in DOMAIN intent_scores.value THEN intent_scores.value[intent]
    ELSE Score(0, 1)

\* max over the keys in iteration order, which replaces the best key so far
\* by a key that merely equals it
RECURSIVE max_key_last(_, _, _)
max_key_last(keys, value, best) ==
    IF keys = << >> THEN best
    ELSE max_key_last(Tail(keys), value,
                      IF Less(value[Head(keys)], value[best]) THEN best ELSE Head(keys))

\* max(intent_scores, key=intent_scores.get): the keys in iteration order,
\* the best so far replaced only by a key whose score is greater
RECURSIVE max_key(_, _, _)
max_key(keys, value, best) ==
    IF keys = << >> THEN best
    ELSE max_key(Tail(keys), value,
                 IF Less(value[best], value[Head(keys)]) THEN Head(keys) ELSE best)

\* _detect_sentiment
detect_sentiment(intent_scores) ==
    IF \/ Less(Score(1, 2), score_get(intent_scores, "FRUSTRATED"))
       \/ Less(Score(1, 2), score_get(intent_scores, "OBJECTION"))
    THEN "NEGATIVE"
    ELSE IF Less(Score(1, 2), score_get(intent_scores, "POSITIVE")) THEN "POSITIVE"
    ELSE IF Less(Score(1, 2), score_get(intent_scores, "UNCERTAIN")) THEN "UNCERTAIN"
    ELSE "NEUTRAL"

\* _is_question: question_words
question_words ==
    << <<"w","h","a","t">>, <<"w","h","e","n">>, <<"w","h","e","r","e">>,
       <<"w","h","o">>, <<"w","h","y">>, <<"h","o","w">>, <<"c","a","n">>,
       <<"c","o","u","l","d">>, <<"w","o","u","l","d">> >>

\* _is_question
is_question(text) ==
    IF Contains(text, << "?" >>) THEN TRUE
    ELSE LET first_word == IF Split(text) # << >> THEN Split(Lower(text))[1] ELSE << >>
         IN  \E i \in 1..Len(question_words) : question_words[i] = first_word

\* detect(user_input); the entry 'entities', which no other entry depends
\* on, is left out of the result
detect(user_input) ==
    LET intent_scores == score_all_intents(user_lower(user_input))
        primary_intent ==
            IF intent_scores.keys # << >>
            THEN max_key(Tail(intent_scores.keys), intent_scores.value,
                         Head(intent_scores.keys))
            ELSE "NEUTRAL"
        all_intents == SelectSeq(intent_scores.keys,
                                 LAMBDA l : ~Less(intent_scores.value[l], Score(1, 2)))
    IN  [ primary_intent |-> primary_intent,
          all_intents |-> all_intents,
          confidence |-> score_get(intent_scores, primary_intent),
          sentiment |-> detect_sentiment(intent_scores),
          is_question |-> is_question(user_input),
          has_multiple_intents |-> Len(all_intents) > 1 ]

\* no detection has been made
NoSignal == [ primary_intent |-> "<none>" ]

-----------------------------------------------------------------------------
(* The script parser (script_parser.py): a pure function of the script's   *)
(* text.  The attributes agent_patterns and section_pattern, which the     *)
(* constructor computes and nothing reads, are left out.                   *)

\* lines a script may hold
LineText ==
    ("OPENING" :> <<"O","P","E","N","I","N","G">>) @@
    ("Agent: Hi" :> <<"A","g","e","n","t",":"," ","H","i">>) @@
    ("Agent:" :> <<"A","g","e","n","t",":">>) @@
    ("hello there" :> <<"h","e","l","l","o"," ","t","h","e","r","e">>) @@
    ("Tone: warm" :> <<"T","o","n","e",":"," ","w","a","r","m">>) @@
    ("Company: Acme" :> <<"C","o","m","p","a","n","y",":"," ","A","c","m","e">>) @@
    ("" :> << >>)

Lines == DOMAIN LineText

\* _is_likely_section_header: section_keywords
section_keywords ==
    << <<"s","t","a","r","t">>,
       <<"e","n","d">>,
       <<"o","p","e","n","i","n","g">>,
       <<"c","l","o","s","i","n","g">>,
       <<"i","n","t","r","o","d","u","c","t","i","o","n">>,
       <<"g","r","e","e","t","i","n","g">>,
       <<"c","o","l","l","e","c","t","i","o","n">>,
       <<"d","e","t","a","i","l","s">>,
       <<"i","n","f","o","r","m","a","t","i","o","n">>,
       <<"b","o","o","k","i","n","g">>,
       <<"c","o","n","f","i","r","m","a","t","i","o","n">>,
       <<"o","b","j","e","c","t","i","o","n">>,
       <<"h","a","n","d","l","i","n","g">>,
       <<"q","u","a","l","i","f","i","c","a","t","i","o","n">>,
       <<"v","e","r","i","f","i","c","a","t","i","o","n">>,
       <<"c","a","l","l">> >>

Quote == "\""

IsUpperChar(c) == \E i \in 1..26 : UpperCase[i] = c

IsLowerChar(c) == \E i \in 1..26 : LowerCase[i] = c

\* the characters of [a-z]
LowerChars == { LowerCase[i] : i \in 1..26 }

UpperChar(c) ==
    IF IsLowerChar(c) THEN UpperCase[CHOOSE i \in 1..26 : LowerCase[i] = c] ELSE c

\* str.upper()
Upper(s) == [ i \in 1..Len(s) |-> UpperChar(s[i]) ]

\* str.startswith, str.endswith
StartsWith(s, p) == Len(s) >= Len(p) /\ SubSeq(s, 1, Len(p)) = p

EndsWith(s, p) == Len(s) >= Len(p) /\ SubSeq(s, Len(s) - Len(p) + 1, Len(s)) = p

\* str.rstrip()
RStrip(s) ==
    LET keep == { i \in 1..Len(s) : s[i] # " " }
    IN  IF keep = {} THEN << >> ELSE SubSeq(s, 1, MaxOf(keep))

\* s[i:], counting from 1
From(s, i) == SubSeq(s, i, Len(s))

\* the first position at or after i that holds c, 0 if there is none
Find(s, c, i) ==
    LET at == { j \in i..Len(s) : s[j] = c }
    IN  IF at = {} THEN 0 ELSE MinOf(at)

\* the first position at or after i that holds no character of the class:
\* where a greedy  [class]*  that starts at i ends
RunEnd(s, i, class) ==
    MinOf({ j \in i..(Len(s) + 1) : j = Len(s) + 1 \/ s[j] \notin class })

\* sep.join(parts)
RECURSIVE JoinWith(_, _)
JoinWith(parts, sep) ==
    IF parts = << >> THEN << >>
    ELSE IF Len(parts) = 1 THEN parts[1]
    ELSE parts[1] \o << sep >> \o JoinWith(Tail(parts), sep)

\* re.match(r'^Agent\s*(\([^)]*\))?:', s, re.IGNORECASE): the number of
\* characters matched, 0 without a match
agent_prefix(s) ==
    IF ~StartsWith(Lower(s), << "a","g","e","n","t" >>) THEN 0
    ELSE LET j == RunEnd(s, 6, { " " })
         IN  IF j > Len(s) THEN 0
             ELSE IF s[j] = ":" THEN j
             ELSE IF s[j] = "("
                  THEN LET k == Find(s, ")", j + 1)
                       IN  IF k # 0 /\ k + 1 <= Len(s) /\ s[k + 1] = ":"
                           THEN k + 1 ELSE 0
                  ELSE 0

\* re.match(r'^[A-Z][a-z]{lo,hi}:', s): the number of characters matched
name_prefix(s, lo, hi) ==
    IF s = << >> \/ ~IsUpperChar(s[1]) THEN 0
    ELSE LET j == RunEnd(s, 2, LowerChars)
         IN  IF j <= Len(s) /\ s[j] = ":" /\ j - 2 >= lo /\ j - 2 <= hi
             THEN j ELSE 0

\* re.match(r'^\([A-Z][a-z\s]+\):', s): the number of characters matched
paren_prefix(s) ==
    IF Len(s) < 2 \/ s[1] # "(" \/ ~IsUpperChar(s[2]) THEN 0
    ELSE LET j == RunEnd(s, 3, LowerChars \cup { " " })
         IN  IF j > 3 /\ j + 1 <= Len(s) /\ s[j] = ")" /\ s[j + 1] = ":"
             THEN j + 1 ELSE 0

\* re.match(r'^"[^"]+"$', s)
quoted_only(s) ==
    /\ Len(s) >= 3
    /\ s[1] = Quote
    /\ s[Len(s)] = Quote
    /\ \A i \in 2..(Len(s) - 1) : s[i] # Quote

\* _is_agent_line
is_agent_line(text) ==
    LET line == Strip(text)
    IN  IF line = << >> THEN FALSE
        ELSE IF agent_prefix(line) > 0 THEN TRUE
        ELSE IF name_prefix(line, 2, 15) > 0 THEN TRUE
        ELSE IF paren_prefix(line) > 0 THEN TRUE
        ELSE quoted_only(line) /\ Len(line) > 10

\* re.match(r'^(Agent|If|IF|When|WHEN|Unless|UNLESS|User|Customer)\s*[:(]',
\*          line, re.IGNORECASE)
speaker_or_condition(line) ==
    \E w \in { << "a","g","e","n","t" >>, << "i","f" >>, << "w","h","e","n" >>,
               << "u","n","l","e","s","s" >>, << "u","s","e","r" >>,
               << "c","u","s","t","o","m","e","r" >> } :
        /\ StartsWith(Lower(line), w)
        /\ LET j == RunEnd(line, Len(w) + 1, { " " })
           IN  j <= Len(line) /\ line[j] \in { ":", "(" }

\* str.isupper()
isupper(s) ==
    /\ \E i \in 1..Len(s) : IsUpperChar(s[i])
    /\ \A i \in 1..Len(s) : ~IsLowerChar(s[i])

\* str.istitle()
istitle(s) ==
    /\ \E i \in 1..Len(s) : IsUpperChar(s[i]) \/ IsLowerChar(s[i])
    /\ \A i \in 1..Len(s) :
        /\ IsUpperChar(s[i]) =>
            (i = 1 \/ ~(IsUpperChar(s[i - 1]) \/ IsLowerChar(s[i - 1])))
        /\ IsLowerChar(s[i]) =>
            (i > 1 /\ (IsUpperChar(s[i - 1]) \/ IsLowerChar(s[i - 1])))

\* _is_likely_section_header; the score is counted in halves
is_likely_section_header(text) ==
    LET line == Strip(text)
        colon == Find(line, ":", 1)
        word_count == Len(Split(line))
        score2 == (IF isupper(line) THEN 6 ELSE 0)
                    + (IF istitle(line) THEN 4 ELSE 0)
                    + (IF ContainsAny(Lower(line), section_keywords) THEN 4 ELSE 0)
                    + (IF word_count <= 4 THEN 2 ELSE 0)
                    + (IF 5 <= word_count /\ word_count <= 8 THEN 1 ELSE 0)
    IN  IF Len(line) < 3 THEN FALSE
        ELSE IF speaker_or_condition(line) THEN FALSE
        ELSE IF StartsWith(line, << Quote >>) \/ EndsWith(line, << Quote >>) THEN FALSE
        ELSE IF StartsWith(line, << "(" >>) THEN FALSE
        ELSE IF colon # 0 /\ colon - 1 < 30 /\ Len(line) - colon > 50 THEN FALSE
        ELSE IF word_count < 1 \/ word_count > 8 THEN FALSE
        ELSE IF ~(\E i \in 1..Len(line) : IsUpperChar(line[i])) THEN FALSE
        ELSE score2 >= 4

\* re.sub(prefix + r'\s*', '', text), for a prefix that matched n characters
WithoutPrefix(text, n) ==
    IF n = 0 THEN text ELSE From(text, RunEnd(text, n + 1, { " " }))

\* text.strip('"\'')
StripQuotes(s) ==
    LET keep == { i \in 1..Len(s) : s[i] \notin { Quote, "'" } }
    IN  IF keep = {} THEN << >> ELSE SubSeq(s, MinOf(keep), MaxOf(keep))

\* _clean_agent_text
clean_agent_text(text) ==
    LET no_agent == WithoutPrefix(text, agent_prefix(text))
        no_name == WithoutPrefix(no_agent, name_prefix(no_agent, 1, Len(no_agent)))
        no_parens == WithoutPrefix(no_name, paren_prefix(no_name))
    IN  Strip(JoinWith(Split(StripQuotes(no_parens)), " "))

\* _extract_metadata, from the i-th line on: the dict metadata
RECURSIVE metadata_from(_, _, _)
metadata_from(lines, i, metadata) ==
    IF i > Len(lines) \/ i > 30 THEN metadata
    ELSE LET line == Strip(lines[i])
             colon == Find(line, ":", 1)
             key == Strip(SubSeq(line, 1, colon - 1))
             value == Strip(From(line, colon + 1))
         IN  IF line = << >> THEN metadata_from(lines, i + 1, metadata)
             ELSE IF is_likely_section_header(line) THEN metadata
             ELSE IF /\ colon # 0
                     /\ Len(key) < 30
                     /\ ~StartsWith(Lower(key), << "a","g","e","n","t"," " >>)
                     /\ ~StartsWith(Lower(key), << "i","f"," " >>)
                     /\ ~StartsWith(Lower(key), << "w","h","e","n"," " >>)
                     /\ ~StartsWith(line, << Quote >>)
                  THEN metadata_from(lines, i + 1,
                                     (Lower(key) :> value) @@ metadata)
                  ELSE metadata_from(lines, i + 1, metadata)

\* _extract_metadata
extract_metadata(lines) == metadata_from(lines, 1, EmptyDict)

\* re.match(r'^(If |IF |When |WHEN |Unless )', next_line, re.IGNORECASE)
new_statement(next_line) ==
    \/ StartsWith(Lower(next_line), << "i","f"," " >>)
    \/ StartsWith(Lower(next_line), << "w","h","e","n"," " >>)
    \/ StartsWith(Lower(next_line), << "u","n","l","e","s","s"," " >>)

\* _extract_agent_dialogue: the first line at or after i that does not
\* continue the dialogue
RECURSIVE dialogue_end(_, _)
dialogue_end(lines, i) ==
    IF i > Len(lines) THEN i
    ELSE LET next_line == Strip(lines[i])
         IN  IF \/ next_line = << >>
                \/ is_likely_section_header(next_line)
                \/ is_agent_line(next_line)
                \/ new_statement(next_line)
             THEN i
             ELSE dialogue_end(lines, i + 1)

\* _extract_agent_dialogue
extract_agent_dialogue(lines, start_idx) ==
    LET lines_consumed == dialogue_end(lines, start_idx + 1) - start_idx
        dialogue_parts == [ k \in 1..lines_consumed |-> Strip(lines[start_idx + k - 1]) ]
    IN  [ cleaned |-> clean_agent_text(JoinWith(dialogue_parts, " ")),
          lines_consumed |-> lines_consumed ]

\* the dict _save_section appends; 'variables', the set of the script's
\* {{placeholders}}, is left out: no line of the model holds one
save_section(name, content, agent_lines) ==
    [ name |-> name,
      content |-> JoinWith(content, "\n"),
      agent_lines |-> agent_lines,
      dialogue |-> Strip(JoinWith(agent_lines, " ")),
      is_conditional |-> \/ Contains(Upper(name), << "I","F"," " >>)
                         \/ Contains(Upper(name), << "W","H","E","N"," " >>),
      line_count |-> Len(agent_lines) ]

\* _extract_all_agent_lines, from the i-th line on
RECURSIVE all_agent_lines_from(_, _)
all_agent_lines_from(lines, i) ==
    IF i > Len(lines) THEN << >>
    ELSE IF /\ is_agent_line(Strip(lines[i]))
            /\ clean_agent_text(Strip(lines[i])) # << >>
         THEN << clean_agent_text(Strip(lines[i])) >> \o all_agent_lines_from(lines, i + 1)
         ELSE all_agent_lines_from(lines, i + 1)

extract_all_agent_lines(lines) == all_agent_lines_from(lines, 1)

\* the loop of _parse_sections from the i-th line on, and the save of the
\* last section; the empty text stands for current_section = None
RECURSIVE sections_from(_, _, _, _, _, _)
sections_from(lines, i, header, content, agent_lines, saved) ==
    LET with_current ==
            IF header # << >>
            THEN Append(saved, save_section(header, content,
                                            agent_lines))
            ELSE saved
    IN  IF i > Len(lines) THEN with_current
        ELSE LET line == Strip(lines[i])
             IN  IF line = << >>
                 THEN sections_from(lines, i + 1, header, content,
                                    agent_lines, saved)
                 ELSE IF is_likely_section_header(line)
                 THEN sections_from(lines, i + 1, line, << >>, << >>, with_current)
                 ELSE IF is_agent_line(line)
                 THEN LET found == extract_agent_dialogue(lines, i)
                      IN  IF found.cleaned # << >>
                          THEN sections_from(lines, i + found.lines_consumed,
                                             header,
                                             Append(content, found.cleaned),
                                             Append(agent_lines, found.cleaned),
                                             saved)
                          ELSE sections_from(lines, i + found.lines_consumed,
                                             header, content,
                                             agent_lines, saved)
                 ELSE sections_from(lines, i + 1, header,
                                    Append(content, line),
                                    agent_lines, saved)

CONVERSATION == << "C","O","N","V","E","R","S","A","T","I","O","N" >>

\* _parse_sections
parse_sections(lines) ==
    LET found == sections_from(lines, 1, << >>, << >>, << >>, << >>)
        all_agent_lines == extract_all_agent_lines(lines)
    IN  IF found # << >> THEN found
        ELSE IF all_agent_lines # << >>
             THEN << save_section(CONVERSATION, all_agent_lines, all_agent_lines) >>
             ELSE << >>

\* UniversalScriptParser(script_text).to_dict(), for the text whose lines,
\* separated by '\n', are those of text
to_dict(text) ==
    LET lines == [ i \in 1..Len(text) |-> RStrip(LineText[text[i]]) ]
    IN  [ metadata |-> extract_metadata(lines),
          sections |-> parse_sections(lines) ]

\* no script has been parsed
NoDocument == [ parsed |-> FALSE ]

-----------------------------------------------------------------------------
(* Construction of the engine                                              *)

\* the fields of an engine and the observations made of its calls
Session(cur, comp, data, phase, dec, op, lft) ==
    [ cur |-> cur, comp |-> comp, data |-> data, phase |-> phase,
      dec |-> dec, lastOp |-> op, left |-> lft ]

\* the fields __init__ assigns
FreshSession == Session(NoSection, {}, EmptyDict, "START", NoDecision, "init", {})

\* ScriptFlowEngine({'sections': secs}): the fields __init__ assigns, for
\* each of the two engines
Constructed(secs, fields) ==
    /\ sections = secs
    /\ flow_map = build_flow_map(secs, fields)
    /\ flow_order = FlowOrder(secs, {})
    /\ current_section = NoSection
    /\ completed_sections = {}
    /\ collected_data = EmptyDict
    /\ conversation_phase = "START"
    /\ decision = NoDecision
    /\ lastOp = "init"
    /\ left = {}
    /\ nsteps = 0
    /\ other = FreshSession
    /\ active = 1

\* ScriptFlowEngine(parsed_script) for a document whose section names are
\* drawn from pool
InitFrom(pool, max_sections) ==
    \E n \in 0..max_sections :
    \E names \in [1..n -> pool] :
    \E fields \in RequiredFieldLists :
        LET secs == [ i \in 1..n |-> [ name |-> names[i], dialogue |-> DialogueText[i] ] ]
        IN  /\ Constructed(secs, fields)
            /\ utterance = << >>
            /\ signal = NoSignal
            /\ script = << >>
            /\ document = NoDocument

\* the engine of a document of the parser: every section carries its header
Init == InitFrom(Names, MaxSections)

\* the engine of a hand-built document, whose sections may lack a name
RawNames ==
    { NoName, "OPENING", "INTRO", "PERSONAL DETAILS", "OBJECTION BUSY", "CLOSING" }

InitRaw == InitFrom(RawNames, MaxSections)

\* two engines of one document of the parser
SharedNames ==
    { "CALL START", "INTRO", "PERSONAL DETAILS", "BOOKING", "OBJECTION BUSY",
      "CLOSING" }

InitTwo == InitFrom(SharedNames, MaxSharedSections)

\* a call assigns the handler's result to the engine's fields
\* the assignments of a call when completed_sections is one set that every
\* engine shares
Apply_shared_completed(r) ==
    /\ current_section' = r.cur
    /\ completed_sections' = r.comp
    /\ collected_data' = r.data
    /\ conversation_phase' = r.phase
    /\ decision' = r.dec
    /\ other' = [ other EXCEPT !.comp = r.comp ]
    /\ UNCHANGED << sections, flow_map, flow_order, active >>
    /\ UNCHANGED detector_vars
    /\ UNCHANGED parser_vars

Apply(r) ==
    /\ current_section' = r.cur
    /\ completed_sections' = r.comp
    /\ collected_data' = r.data
    /\ conversation_phase' = r.phase
    /\ decision' = r.dec
    /\ UNCHANGED << sections, flow_map, flow_order, other, active >>
    /\ UNCHANGED detector_vars
    /\ UNCHANGED parser_vars

\* engine.start_conversation()
Start ==
    /\ Apply(start_conversation)
    /\ lastOp' = "start"
    /\ left' = {}
    /\ UNCHANGED nsteps

\* engine.get_next_step(user_input, intent_data)
StepCall(user_input) ==
    /\ Apply(get_next_step(user_input))
    /\ lastOp' = "step"
    /\ left' = IF current_section # NoSection
                  /\ get_next_step(user_input).cur # current_section
               THEN left \cup { current_section }
               ELSE left

Step(user_input) ==
    /\ StepCall(user_input)
    /\ UNCHANGED nsteps

\* reset that forgets to clear completed_sections
Reset_keeps_completed ==
    /\ current_section' = NoSection
    /\ collected_data' = EmptyDict
    /\ conversation_phase' = "START"
    /\ decision' = NoDecision
    /\ lastOp' = "reset"
    /\ left' = {}
    /\ UNCHANGED << sections, flow_map, flow_order, completed_sections, nsteps,
                    other, active >>
    /\ UNCHANGED detector_vars
    /\ UNCHANGED parser_vars

\* engine.reset()
Reset ==
    /\ current_section' = NoSection
    /\ completed_sections' = {}
    /\ collected_data' = EmptyDict
    /\ conversation_phase' = "START"
    /\ decision' = NoDecision
    /\ lastOp' = "reset"
    /\ left' = {}
    /\ UNCHANGED << sections, flow_map, flow_order, nsteps, other, active >>
    /\ UNCHANGED detector_vars
    /\ UNCHANGED parser_vars

Next ==
    \/ Start
    \/ \E u \in Utterances : Step(u)
    \/ Reset

Spec == Init /\ [][Next]_vars

\* the same calls on an engine built from a hand-built document
SpecRaw == InitRaw /\ [][Next]_vars

-----------------------------------------------------------------------------
(* Two sessions: each has its own engine, both built from one parsed       *)
(* document.  The variables of the engine hold the fields of the engine    *)
(* whose call runs next; Switch hands the turn to the other engine, so     *)
(* that the calls of the two engines interleave in every order.            *)

\* the engine whose call runs next, as a record
Running ==
    Session(current_section, completed_sections, collected_data,
            conversation_phase, decision, lastOp, left)

\* the next call is a call of the other engine
Switch ==
    /\ active' = 3 - active
    /\ other' = Running
    /\ current_section' = other.cur
    /\ completed_sections' = other.comp
    /\ collected_data' = other.data
    /\ conversation_phase' = other.phase
    /\ decision' = other.dec
    /\ lastOp' = other.lastOp
    /\ left' = other.left
    /\ UNCHANGED << sections, flow_map, flow_order, nsteps >>
    /\ UNCHANGED detector_vars
    /\ UNCHANGED parser_vars

\* what the users of the two sessions say: an affirmation, an objection and
\* an answer that carries data
SharedUtterances == { "yes", "I am busy", "a@b.co, 07123456789" }

NextTwo ==
    \/ Start
    \/ \E u \in SharedUtterances : Step(u)
    \/ Reset
    \/ Switch

SpecTwo == InitTwo /\ [][NextTwo]_vars

-----------------------------------------------------------------------------
(* The intent detector applied to an utterance (process_user_message       *)
(* calls detect on every message, before the engine's step).               *)

\* the detector's caller holds an utterance
InitIntent ==
    /\ Constructed(<< >>, << >>)
    /\ utterance \in BoundedUtterances
    /\ signal = NoSignal
    /\ script = << >>
    /\ document = NoDocument

\* intent_detector.detect(user_input)
Detect ==
    /\ signal' = detect(JoinText(utterance))
    /\ UNCHANGED << sections, flow_map, flow_order, current_section,
                    completed_sections, collected_data, conversation_phase,
                    decision, lastOp, left, nsteps, other, active, utterance >>
    /\ UNCHANGED parser_vars

NextIntent == Detect

SpecIntent == InitIntent /\ [][NextIntent]_vars

-----------------------------------------------------------------------------
(* The parser applied to a script (load_script builds the parser on the    *)
(* uploaded text and takes its to_dict()).                                 *)

\* the scripts given to the parser: up to MaxLines lines
BoundedScripts == UNION { [1..n -> Lines] : n \in 0..MaxLines }

InitParse ==
    /\ Constructed(<< >>, << >>)
    /\ utterance = << >>
    /\ signal = NoSignal
    /\ script \in BoundedScripts
    /\ document = NoDocument

\* UniversalScriptParser(script_text).to_dict()
Parse ==
    /\ document' = to_dict(script)
    /\ UNCHANGED << sections, flow_map, flow_order, current_section,
                    completed_sections, collected_data, conversation_phase,
                    decision, lastOp, left, nsteps, other, active, script >>
    /\ UNCHANGED detector_vars

NextParse == Parse

SpecParse == InitParse /\ [][NextParse]_vars

-----------------------------------------------------------------------------
(* A call driven by a user who always affirms: start once, then one step   *)
(* per turn, every utterance an affirmation that matches no objection      *)
(* keyword.  The turn loop of the caller issues the next step as long as   *)
(* the call is active, hence the weak fairness of the steps.               *)

\* the step counter counts up to MaxSteps; past it, it keeps the parity of
\* the count, so that every call is a step of the behaviour
MaxSteps == MaxSections + 2

AffirmingUtterances ==
    { u \in Utterances :
        /\ OpeningAffirms[u] /\ IntroductionAffirms[u] /\ BookingAffirms[u]
        /\ UtteranceCategories[u] = {} }

AffirmStart ==
    /\ lastOp = "init"
    /\ Start

AffirmStep ==
    /\ lastOp # "init"
    /\ \E u \in AffirmingUtterances : StepCall(u)
    /\ nsteps' = IF nsteps <= MaxSteps THEN nsteps + 1 ELSE nsteps - 1

NextAffirm == AffirmStart \/ AffirmStep

SpecAffirm ==
    Init /\ [][NextAffirm]_vars /\ WF_vars(AffirmStart) /\ WF_vars(AffirmStep)

-----------------------------------------------------------------------------
(* Vocabulary of the properties                                            *)

\* the positions of the document's sections that are not objection sections
NonObjectionIndices ==
    { i \in 1..Len(sections) : TypeOf[sections[i].name] # "OBJECTION_HANDLING" }

\* the terminal CLOSING decision with the fixed goodbye line
IsTerminal(d) ==
    /\ d.section = "END"
    /\ d.type = "CLOSING"
    /\ d.phase = "CLOSING"
    /\ d.agent_line = "Thank you for your time. Goodbye!"

\* an objection section of the same category as the utterance exists
ObjectionApplies(u) ==
    \E i \in 1..Len(sections) :
        /\ TypeOf[sections[i].name] = "OBJECTION_HANDLING"
        /\ UtteranceCategories[u] \cap NameCategories[sections[i].name] # {}

\* every non-objection section other than the current one is completed
NothingRemains ==
    \A i \in NonObjectionIndices :
        \/ sections[i].name = current_section
        \/ sections[i].name \in completed_sections

-----------------------------------------------------------------------------
(* Termination with an affirming user (SpecAffirm)                         *)

\* C1: with N >= 1 non-objection sections and a user who always affirms,
\* the N-th step after start returns the terminal CLOSING decision and no
\* earlier step does.
C1_TerminalAtNthStep ==
    LET N == Cardinality(NonObjectionIndices)
    IN  (lastOp = "step" /\ N >= 1 /\ nsteps <= N)
            => (IsTerminal(decision) <=> nsteps = N)

\* C2: with at least one section and a user who always affirms, some step
\* eventually returns the terminal CLOSING decision.
C2_EventuallyTerminal ==
    <>(sections = << >> \/ (lastOp = "step" /\ IsTerminal(decision)))

\* C3: once a step has advanced the conversation away from a section, no
\* later step of the session makes it the current section again.
C3_NoSectionReasked == current_section \notin left

\* C4: with a user who always affirms, when step returns the terminal CLOSING
\* decision the name of every non-objection section is in completed_sections.
C4_AllCompletedAtTerminal ==
    (lastOp = "step" /\ IsTerminal(decision))
        => \A i \in NonObjectionIndices : sections[i].name \in completed_sections

\* C5: whatever the type of the current section, when no uncompleted
\* non-objection section remains and the user affirms, step returns the
\* terminal CLOSING decision and not a re-ask or prompt line.
C5_ExhaustedScriptCloses ==
    [][ \A u \in AffirmingUtterances :
            ( /\ current_section \in DOMAIN flow_map
              /\ flow_map[current_section].type # "OBJECTION_HANDLING"
              /\ NothingRemains
              /\ Step(u) )
            => IsTerminal(decision') ]_vars

-----------------------------------------------------------------------------
(* Objection precedence                                                    *)

\* C6: if the utterance matches an objection category and an objection section
\* of that category exists, then whatever the type of the current section the
\* decision of step has phase OBJECTION and carries the dialogue of such an
\* objection section, and no type-specific handler runs: the engine's fields
\* keep their values.
C6_ObjectionPrecedence ==
    [][ \A u \in Utterances :
            ( /\ current_section \in DOMAIN flow_map
              /\ ObjectionApplies(u)
              /\ Step(u) )
            => /\ decision'.phase = "OBJECTION"
               /\ \E i \in 1..Len(sections) :
                     /\ sections[i].name = decision'.section
                     /\ sections[i].dialogue = decision'.agent_line
                     /\ TypeOf[sections[i].name] = "OBJECTION_HANDLING"
                     /\ UtteranceCategories[u] \cap NameCategories[sections[i].name] # {}
               /\ UNCHANGED << current_section, completed_sections,
                               collected_data, conversation_phase >> ]_vars

\* an objection was intercepted while the current section was an
\* INTRODUCTION or a BOOKING section
C6_Witness ==
    /\ lastOp = "step"
    /\ decision.phase = "OBJECTION"
    /\ current_section \in DOMAIN flow_map
    /\ flow_map[current_section].type \in { "INTRODUCTION", "BOOKING" }

-----------------------------------------------------------------------------
(* Completion and progress                                                 *)

\* C7: without a reset, the size of completed_sections never decreases from
\* one call to the next.
C7_MonotonicCompletion ==
    [][ lastOp' # "reset"
            => Cardinality(completed_sections') >= Cardinality(completed_sections) ]_vars

\* a step has added a second name to completed_sections
C7_Witness ==
    /\ lastOp = "step"
    /\ Cardinality(completed_sections) >= 2

\* C8: progress_percentage lies in [0,100], is 0 when the document has no
\* non-objection section, and the completed count never exceeds the total
\* non-objection section count.
C8_BoundedProgress ==
    /\ get_progress.progress_percentage \in 0..100
    /\ (NonObjectionIndices = {} => get_progress.progress_percentage = 0)
    /\ Cardinality(completed_sections) <= get_progress.total_sections
    /\ Cardinality(completed_sections) <= Cardinality(NonObjectionIndices)

\* the progress has reached 100 percent after a step
C8_Witness ==
    /\ lastOp = "step"
    /\ completed_sections # {}
    /\ get_progress.progress_percentage = 100

\* C9: when step returns the terminal CLOSING decision, current_section is
\* "END" afterwards.
C9_CurrentSectionIsEnd ==
    (lastOp = "step" /\ IsTerminal(decision)) => current_section = "END"

-----------------------------------------------------------------------------
(* start                                                                   *)

OpeningIndices ==
    { i \in 1..Len(sections) : TypeOf[sections[i].name] = "OPENING" }

\* the last section of the document that bears the name of section i
LastNamed(i) ==
    MaxOf({ j \in 1..Len(sections) : sections[j].name = sections[i].name })

-----------------------------------------------------------------------------
(* reset                                                                   *)

\* the fields of a freshly built engine
IsFreshState(cur, comp, data, phase) ==
    /\ cur = NoSection
    /\ comp = {}
    /\ data = EmptyDict
    /\ phase = "START"

\* what start leaves and returns on a freshly built engine of this document
IsFreshStart(cur, comp, data, phase, dec) ==
    /\ comp = {}
    /\ data = EmptyDict
    /\ dec.type = "OPENING"
    /\ dec.phase = "OPENING"
    /\ dec.objection_type = "<none>"
    /\ IF OpeningIndices # {}
       THEN /\ cur = sections[MinOf(OpeningIndices)].name
            /\ phase = "OPENING"
            /\ dec.section = cur
            /\ dec.agent_line = sections[LastNamed(MinOf(OpeningIndices))].dialogue
            /\ dec.required_fields = flow_map[cur].required_fields
       ELSE IF sections # << >>
       THEN /\ cur = sections[1].name
            /\ phase = "START"
            /\ dec.section = cur
            /\ dec.agent_line = sections[1].dialogue
            /\ dec.required_fields = << >>
       ELSE /\ cur = NoSection
            /\ phase = "START"
            /\ dec.section = "DEFAULT"
            /\ dec.agent_line = "Hello! Thank you for your interest."
            /\ dec.required_fields = << >>

\* C11: after reset, from any reachable state, current_section is none,
\* completed_sections and collected_data are empty and phase is START, the
\* state of a freshly built engine; start after reset gives the decision and
\* the state that start gives on a new engine.
C11_ResetRestoresFreshState ==
    [][ /\ lastOp' = "reset"
            => IsFreshState(current_section', completed_sections',
                            collected_data', conversation_phase')
        /\ (lastOp \in { "init", "reset" } /\ lastOp' = "start")
            => IsFreshStart(current_section', completed_sections',
                            collected_data', conversation_phase', decision') ]_vars

\* reset has been called on an engine of a document with sections
C11_Witness ==
    /\ lastOp = "reset"
    /\ Len(sections) >= 2
    /\ IsFreshState(current_section, completed_sections, collected_data,
                    conversation_phase)

-----------------------------------------------------------------------------
(* Phase, completed sections and the current section                       *)

\* C18: the phase is START before the first turn and otherwise the type of
\* the current section.
C18_PhaseIsTypeOfCurrentSection ==
    IF current_section = NoSection
    THEN conversation_phase = "START"
    ELSE current_section \in DOMAIN flow_map
            => conversation_phase = flow_map[current_section].type

\* C19: every element of completed_sections is the name of a section of the
\* document.
C19_CompletedAreSectionNames ==
    completed_sections \subseteq { sections[i].name : i \in 1..Len(sections) }

\* C20: when objection interception answers a step, current_section is
\* afterwards the objection section named in the returned decision.
C20_ObjectionBecomesCurrent ==
    (lastOp = "step" /\ decision.phase = "OBJECTION")
        => current_section = decision.section

-----------------------------------------------------------------------------
(* The current section is not in the flow map (SpecRaw)                    *)

\* C12: if current_section names a section absent from the flow map, step
\* returns the "please repeat" fallback decision and changes nothing in the
\* state, whatever the utterance, one that matches an objection included.
C12_FallbackLeavesState ==
    [][ \A u \in Utterances :
            ( /\ current_section # NoSection
              /\ current_section \notin DOMAIN flow_map
              /\ Step(u) )
            => /\ decision'.section = "FALLBACK"
               /\ decision'.type = "CONVERSATION"
               /\ decision'.agent_line = "I'm sorry, could you repeat that?"
               /\ UNCHANGED << current_section, completed_sections,
                               collected_data, conversation_phase >> ]_vars

\* the fallback has answered a step of a document that has an objection section
C12_Witness ==
    /\ lastOp = "step"
    /\ decision.section = "FALLBACK"
    /\ current_section \notin DOMAIN flow_map
    /\ \E n \in DOMAIN flow_map : flow_map[n].type = "OBJECTION_HANDLING"

-----------------------------------------------------------------------------
(* Two sessions (SpecTwo)                                                  *)

-----------------------------------------------------------------------------
(* The intent detector (SpecIntent)                                        *)

\* the scores of the utterance's intents, and the positions in
\* INTENT_PATTERNS of the intents that have one
Scored == score_all_intents(user_lower(JoinText(utterance)))

ScoredPositions ==
    { p \in 1..Len(INTENT_PATTERNS) : INTENT_PATTERNS[p].intent \in DOMAIN Scored.value }

ScoreAt(p) == Scored.value[INTENT_PATTERNS[p].intent]

\* C14: primary_intent is the label with the maximum normalized score; when
\* several labels tie for the maximum, the one declared first in the intent
\* table is chosen; with no matching label the result is NEUTRAL with
\* confidence 0.
C14_PrimaryIsFirstMaximal ==
    signal # NoSignal =>
        IF ScoredPositions = {}
        THEN signal.primary_intent = "NEUTRAL" /\ signal.confidence.num = 0
        ELSE \E p \in ScoredPositions :
                /\ signal.primary_intent = INTENT_PATTERNS[p].intent
                /\ signal.confidence = ScoreAt(p)
                /\ \A q \in ScoredPositions : ~Less(ScoreAt(p), ScoreAt(q))
                /\ \A q \in ScoredPositions : q < p => Less(ScoreAt(q), ScoreAt(p))

\* a detection whose maximum score two labels share
C14_Witness ==
    /\ signal # NoSignal
    /\ \E p, q \in ScoredPositions :
        /\ p < q
        /\ ~Less(ScoreAt(p), ScoreAt(q))
        /\ ~Less(ScoreAt(q), ScoreAt(p))
        /\ \A r \in ScoredPositions : ~Less(ScoreAt(p), ScoreAt(r))

\* C15: classifying "No thanks, not interested" yields primary_intent
\* NEGATIVE, sentiment NEGATIVE and is_question false.
C15_ExampleIsNegative ==
    (signal # NoSignal /\ utterance = << "No thanks,", "not interested" >>)
        => /\ signal.primary_intent = "NEGATIVE"
           /\ signal.sentiment = "NEGATIVE"
           /\ signal.is_question = FALSE

-----------------------------------------------------------------------------
(* The parser (SpecParse)                                                  *)

\* the lines of the script, as the parser holds them
ScriptLines == [ i \in 1..Len(script) |-> RStrip(LineText[script[i]]) ]

\* the lines detected as section headers, and as spoken lines
HeaderIndices ==
    { i \in 1..Len(script) : is_likely_section_header(ScriptLines[i]) }

SpokenIndices == { i \in 1..Len(script) : is_agent_line(ScriptLines[i]) }

\* the k-th smallest element of a set of numbers
Kth(S, k) == CHOOSE i \in S : Cardinality({ j \in S : j <= i }) = k

\* the text of every detected spoken line, in document order
SpokenTexts ==
    [ k \in 1..Cardinality(SpokenIndices) |->
        clean_agent_text(Strip(ScriptLines[Kth(SpokenIndices, k)])) ]

\* C16: if no line of the script is detected as a section header and at
\* least one spoken line is detected, the document has exactly one section,
\* named CONVERSATION, whose agent lines are all detected spoken lines in
\* document order; if no spoken line exists either, the section list is
\* empty.
C16_NoHeaderGivesConversation ==
    (document # NoDocument /\ HeaderIndices = {}) =>
        IF SpokenIndices # {}
        THEN /\ Len(document.sections) = 1
             /\ document.sections[1].name = CONVERSATION
             /\ document.sections[1].agent_lines = SpokenTexts
        ELSE document.sections = << >>

\* a line "Key: Value": a key and a value around the first colon, the key
\* not the speaker prefix of an agent line
IsKeyValue(line) ==
    /\ Find(line, ":", 1) > 1
    /\ Strip(From(line, Find(line, ":", 1) + 1)) # << >>
    /\ agent_prefix(line) = 0

KeyOf(line) == Strip(SubSeq(line, 1, Find(line, ":", 1) - 1))

ValueOf(line) == Strip(From(line, Find(line, ":", 1) + 1))

\* the length of the block of "Key: Value" lines the script begins with
KeyValueBlockLength ==
    IF \A i \in 1..Len(script) : IsKeyValue(ScriptLines[i]) THEN Len(script)
    ELSE MinOf({ i \in 1..Len(script) : ~IsKeyValue(ScriptLines[i]) }) - 1

\* C17: for a script that begins with a block of "Key: Value" lines followed
\* by a valid section header, every such line yields
\* metadata[lower-cased key] = Value, and none of those lines appears in any
\* section's dialogue.
C17_MetadataRoundTrip ==
    ( /\ document # NoDocument
      /\ KeyValueBlockLength >= 1
      /\ KeyValueBlockLength < Len(script)
      /\ is_likely_section_header(ScriptLines[KeyValueBlockLength + 1]) )
    => \A i \in 1..KeyValueBlockLength :
        /\ Lower(KeyOf(ScriptLines[i])) \in DOMAIN document.metadata
        /\ document.metadata[Lower(KeyOf(ScriptLines[i]))] = ValueOf(ScriptLines[i])
        /\ \A s \in 1..Len(document.sections) :
            ~Contains(document.sections[s].dialogue, ValueOf(ScriptLines[i]))

-----------------------------------------------------------------------------
(* The handlers of a step (Spec)                                           *)

\* C21: a step that objection interception answers leaves completed_sections
\* and collected_data as they were.
C21_InterceptionKeepsProgress ==
    [][ (lastOp' = "step" /\ decision'.phase = "OBJECTION")
            => UNCHANGED << completed_sections, collected_data >> ]_vars

\* an objection was intercepted after a section was completed and a field
\* was collected
C21_Witness ==
    /\ lastOp = "step"
    /\ decision.phase = "OBJECTION"
    /\ completed_sections # {}
    /\ DOMAIN collected_data # {}

\* the positions of the INTRODUCTION sections not yet completed
OpenIntroductions ==
    { i \in 1..Len(sections) :
        /\ TypeOf[sections[i].name] = "INTRODUCTION"
        /\ sections[i].name \notin completed_sections }

\* the engine's fields, without the returned decision
engine_fields ==
    << current_section, completed_sections, collected_data, conversation_phase >>

\* C22: at an OPENING section a step that no objection intercepts marks
\* OPENING complete and moves to the first INTRODUCTION section not yet
\* completed, wherever it lies, when the utterance holds an affirmation
\* token; otherwise it returns the clarification line and leaves the state.
C22_OpeningHandler ==
    [][ \A u \in Utterances :
            ( /\ current_section \in DOMAIN flow_map
              /\ flow_map[current_section].type = "OPENING"
              /\ check_for_objections(u) = NoDecision
              /\ Step(u) )
            => IF OpeningAffirms[u]
               THEN /\ "OPENING" \in completed_sections'
                    /\ OpenIntroductions # {}
                         => current_section' = sections[MinOf(OpenIntroductions)].name
               ELSE /\ decision'.agent_line = "Sorry, may I confirm who I'm speaking with?"
                    /\ UNCHANGED engine_fields ]_vars

\* the document position of the current section: start_conversation's
\* fallback takes sections[0] itself, and every other arrival presents the
\* entry the flow map holds under the section's name
CurrentIndex ==
    IF left = {} /\ \A n \in DOMAIN flow_map : flow_map[n].type # "OPENING"
    THEN 1
    ELSE flow_map[current_section].index

\* the positions after i of the sections that are neither completed nor
\* objection sections
Following(i) ==
    { j \in (i + 1)..Len(sections) :
        /\ sections[j].name \notin completed_sections
        /\ TypeOf[sections[j].name] # "OBJECTION_HANDLING" }

\* C23: at a DATA_COLLECTION or PROPERTY_INFO section that an uncompleted
\* non-objection section follows, a step that no objection intercepts adds
\* the current section's name to completed_sections and moves to the first
\* such following section, whatever the length of the utterance.
C23_DataCollectionAdvances ==
    [][ \A u \in Utterances :
            ( /\ current_section \in DOMAIN flow_map
              /\ flow_map[current_section].type \in { "DATA_COLLECTION", "PROPERTY_INFO" }
              /\ check_for_objections(u) = NoDecision
              /\ Following(CurrentIndex) # {}
              /\ Step(u) )
            => /\ completed_sections' = completed_sections \cup { current_section }
               /\ current_section' = sections[MinOf(Following(CurrentIndex))].name ]_vars

\* C24: at a BOOKING section a step that no objection intercepts moves to the
\* uncompleted non-objection section that follows, with a decision of phase
\* BOOKING, when the utterance holds an affirmation token; without such a
\* token it returns the confirmation prompt and leaves the state.
C24_BookingHandler ==
    [][ \A u \in Utterances :
            ( /\ current_section \in DOMAIN flow_map
              /\ flow_map[current_section].type = "BOOKING"
              /\ check_for_objections(u) = NoDecision
              /\ Step(u) )
            => /\ (BookingAffirms[u] /\ Following(CurrentIndex) # {})
                    => /\ current_section' = sections[MinOf(Following(CurrentIndex))].name
                       /\ decision'.section = current_section'
                       /\ decision'.phase = "BOOKING"
               /\ ~BookingAffirms[u]
                    => /\ decision'.agent_line
                            = "Would you like to proceed with booking the consultation?"
                       /\ UNCHANGED engine_fields ]_vars

\* C25: a step that advances sequentially moves to the section of the
\* smallest position after the current section's that is neither completed
\* nor an objection section.
C25_AdvanceTakesNearest ==
    [][ ( /\ lastOp' = "step"
          /\ current_section \in DOMAIN flow_map
          /\ flow_map[current_section].type # "OPENING"
          /\ current_section' # current_section )
        => /\ Following(CurrentIndex) # {}
           /\ current_section' = sections[MinOf(Following(CurrentIndex))].name ]_vars

-----------------------------------------------------------------------------
(* Sections that share a name (Spec)                                       *)

\* the positions of the sections whose name a later section bears too
Shadowed ==
    { i \in 1..Len(sections) : LastNamed(i) # i }

\* the dialogues of the document's sections
Dialogues == { sections[i].dialogue : i \in 1..Len(sections) }

\* the decision is the one start_conversation's fallback builds from
\* sections[0] itself
IsFirstSectionDecision(d) ==
    /\ OpeningIndices = {}
    /\ sections # << >>
    /\ d.section = sections[1].name
    /\ d.type = "OPENING"
    /\ d.agent_line = sections[1].dialogue

\* C26 as stated: a decision that names a section whose name a later section
\* bears too carries the later section's dialogue.
C26_DecisionCarriesLaterDialogue ==
    \A i \in Shadowed :
        (decision.section = sections[i].name /\ decision.agent_line \in Dialogues)
            => decision.agent_line = sections[LastNamed(i)].dialogue

\* C26, amended: the flow map holds the later section under a shared name; a
\* decision that names the section and carries a dialogue of the document
\* carries the later section's, except the decision start's fallback builds
\* from the first section of the document; and a sequential advance from the
\* name moves to the first uncompleted non-objection section after the later
\* section.
C26_LaterSectionWins ==
    [][ \A i \in Shadowed :
            /\ flow_map[sections[i].name].index = LastNamed(i)
            /\ flow_map[sections[i].name].dialogue = sections[LastNamed(i)].dialogue
            /\ ( /\ decision'.section = sections[i].name
                 /\ decision'.agent_line \in Dialogues
                 /\ ~IsFirstSectionDecision(decision') )
                    => decision'.agent_line = sections[LastNamed(i)].dialogue
            /\ ( /\ lastOp' = "step"
                 /\ current_section = sections[i].name
                 /\ flow_map[current_section].type # "OPENING"
                 /\ current_section' # current_section )
                    => /\ Following(LastNamed(i)) # {}
                       /\ current_section'
                            = sections[MinOf(Following(LastNamed(i)))].name ]_vars

\* a step has advanced from a section whose name a later section bears too,
\* past that later section
C26_Witness ==
    /\ lastOp = "step"
    /\ \E i \in Shadowed :
          /\ sections[i].name \in left
          /\ current_section \in DOMAIN flow_map
          /\ flow_map[current_section].index > LastNamed(i)

-----------------------------------------------------------------------------
(* The current section of a document whose sections all carry a name       *)

\* C27: the current section is unset or a key of the flow map, and no call
\* returns the "please repeat" fallback decision.
C27_CurrentSectionIsKnown ==
    /\ current_section = NoSection \/ current_section \in DOMAIN flow_map
    /\ decision.section # "FALLBACK"

\* the script was exhausted by a step and the current section is still a key
\* of the flow map
C27_Witness ==
    /\ lastOp = "step"
    /\ decision.section = "END"
    /\ current_section \in DOMAIN flow_map
    /\ completed_sections # {}

-----------------------------------------------------------------------------
(* The collected data                                                      *)

\* C28: unless the call is reset, collected_data changes only in a step taken
\* at a DATA_COLLECTION or PROPERTY_INFO section that objection interception
\* does not answer, and keeps every key it has.
C28_OnlyCollectionWritesData ==
    [][ lastOp' # "reset"
            => /\ collected_data' # collected_data
                    => /\ lastOp' = "step"
                       /\ current_section \in DOMAIN flow_map
                       /\ flow_map[current_section].type
                            \in { "DATA_COLLECTION", "PROPERTY_INFO" }
                       /\ decision'.phase # "OBJECTION"
               /\ DOMAIN collected_data \subseteq DOMAIN collected_data'
               /\ get_progress.collected_data = collected_data ]_vars

\* start was called again after a field was collected, and the field is kept
C28_Witness ==
    /\ lastOp = "start"
    /\ DOMAIN collected_data # {}
    /\ completed_sections # {}

-----------------------------------------------------------------------------
(* A step without a current section                                        *)

\* C29: a step taken while current_section is unset assigns and returns what
\* start would, whatever the utterance; on a document without sections it
\* returns the default greeting and leaves the state as constructed.
C29_StepWithoutSectionStarts ==
    [][ \A u \in Utterances :
            (current_section = NoSection /\ Step(u))
            => /\ current_section' = start_conversation.cur
               /\ completed_sections' = start_conversation.comp
               /\ collected_data' = start_conversation.data
               /\ conversation_phase' = start_conversation.phase
               /\ decision' = start_conversation.dec
               /\ sections = << >>
                    => /\ decision'.section = "DEFAULT"
                       /\ decision'.agent_line = "Hello! Thank you for your interest."
                       /\ IsFreshState(current_section', completed_sections',
                                       collected_data', conversation_phase') ]_vars

\* a step was taken on a document without sections
C29_Witness ==
    /\ lastOp = "step"
    /\ sections = << >>
    /\ decision.section = "DEFAULT"
    /\ current_section = NoSection

-----------------------------------------------------------------------------
(* Spoken lines of a script with headers (SpecParse)                       *)

\* the lines detected as spoken lines that carry a text
SpokenLines ==
    { i \in SpokenIndices \ HeaderIndices :
        clean_agent_text(Strip(ScriptLines[i])) # << >> }

\* the places of the document's agent lines: section and position
AgentLinePlaces ==
    { p \in (1..Len(document.sections)) \X (1..MaxLines) :
        p[2] <= Len(document.sections[p[1]].agent_lines) }

\* C30: when a line of the script is detected as a section header, every
\* detected spoken line, those before the first header included, is an agent
\* line of exactly one section: each begins an agent line of a section, and
\* the sections hold no more agent lines than spoken lines were detected.
C30_SpokenLinesAreKept ==
    (document # NoDocument /\ HeaderIndices # {}) =>
        /\ \A i \in SpokenLines :
              \E p \in AgentLinePlaces :
                  StartsWith(document.sections[p[1]].agent_lines[p[2]],
                             clean_agent_text(Strip(ScriptLines[i])))
        /\ Cardinality(AgentLinePlaces) <= Cardinality(SpokenIndices \ HeaderIndices)

=============================================================================
